---- MODULE Spec2Model ----
(***************************************************************************)
(* Model of the three benchmark scripts of the repository                  *)
(*   notebooks/mongo_benchmark.py      (script "mongo")                    *)
(*   notebooks/cassandra_benchmark.py  (script "astra")                    *)
(*   notebooks/dynamo_benchmark.py     (script "dynamo")                   *)
(* Each script loads a CSV file, normalizes its rows, and runs the insert, *)
(* read, update and delete categories against its store, timing each call. *)
(* The model starts at the call of run_benchmark(): the configuration      *)
(* lines at the top of the scripts are not modelled (mongo_benchmark.py    *)
(* line 10 uses os without importing it, and dynamo_benchmark.py line 15   *)
(* holds two statements joined on one line).  A store call takes `lat`     *)
(* ticks and either returns or raises; the statements that lead to it take *)
(* `ovh` ticks.  Of the store's content the model keeps the records whose  *)
(* identity is the one the keyed calls of the run name (`target_id`, and   *)
(* the identity of the Mongo script's dummy record), in insertion order,   *)
(* each with its Order_Priority and the section of the run that inserted   *)
(* it; a call that raises leaves the store as it was.                      *)
(*                                                                         *)
(* Values.  A Python scalar is a record [t, v, s]: t is its type, v an     *)
(* integer payload (an integer's value, a float's value in hundredths, a   *)
(* text's code) and s says, for a text, how it was made ("lit": a literal  *)
(* of the file, "int"/"float"/...: str() of a value of that type).         *)
(***************************************************************************)
EXTENDS Integers, Sequences, FiniteSets, TLC

VARIABLES
    script,           \* which of the three scripts runs
    pc,               \* position in run_benchmark
    status,           \* "running", "returned" (early return), "crashed", "done"
    error,            \* name of the exception that ended the run, or "none"
    csv,              \* the file at FILE_PATH: whether it exists, its header, its rows
    full_data,        \* prepare_data's result
    idx,              \* loop position inside the current category
    t_start,          \* the variable t_start
    now,              \* time.time(), in ticks
    lat,              \* ticks one store call takes in this run
    ovh,              \* ticks the statements before a store call take in this run
    latencies,        \* the list `latencies`
    read_latencies,   \* the list `read_latencies`
    update_latencies, \* the list `update_latencies`
    delete_latencies, \* the list `delete_latencies`
    t,                \* the t_* totals by name
    ncalls,           \* number of store calls issued so far
    nfailed,          \* number of store calls that raised
    lastCall,         \* the store call issued last
    sent,             \* records handed to the store by the batch and bulk categories
    store,            \* what the store holds under the identities the run asks for
    report            \* what TABLE 5 printed

vars == <<script, pc, status, error, csv, full_data, idx, t_start, now, lat, ovh,
          latencies, read_latencies, update_latencies, delete_latencies, t,
          ncalls, nfailed, lastCall, sent, store, report>>

Min(a, b) == IF a <= b THEN a ELSE b

----------------------------------------------------------------------------
(* Python values *)

PyInt(n) == [t |-> "int", v |-> n, s |-> ""]
PyFloat(h) == [t |-> "float", v |-> h, s |-> ""]
PyBool(b) == [t |-> "bool", v |-> b, s |-> ""]
Decimal(h) == [t |-> "decimal", v |-> h, s |-> ""]
PyStr(c, form) == [t |-> "str", v |-> c, s |-> form]
Datetime(c) == [t |-> "datetime", v |-> c, s |-> ""]
None == [t |-> "none", v |-> 0, s |-> ""]
NaN == [t |-> "nan", v |-> 0, s |-> ""]
Inf == [t |-> "inf", v |-> 0, s |-> ""]
NegInf == [t |-> "ninf", v |-> 0, s |-> ""]
NaT == [t |-> "nat", v |-> 0, s |-> ""]

\* pd.isna(value): None and NaN
isna(value) == value.t \in {"none", "nan"}

\* isinstance(value, float): Python floats, NaN and the infinities included
is_float(value) == value.t \in {"float", "nan", "inf", "ninf"}

\* isinstance(value, (int, np.integer)): bool is a subclass of int
is_int(value) == value.t \in {"int", "bool"}

\* np.isinf(value)
isinf(value) == value.t \in {"inf", "ninf"}

\* np.isnan(value)
isnan(value) == value.t = "nan"

\* a str() that leaves the value as it is
str_unchanged(value) == value

\* str(value)
str(value) ==
    CASE value.t = "str" -> value
      [] value.t = "int" -> PyStr(value.v, "int")
      [] value.t = "float" -> PyStr(value.v, "float")
      [] value.t = "bool" -> PyStr(value.v, "bool")
      [] value.t = "decimal" -> PyStr(value.v, "decimal")
      [] value.t = "none" -> PyStr(0, "None")
      [] value.t = "nan" -> PyStr(0, "nan")
      [] value.t = "inf" -> PyStr(0, "inf")
      [] value.t = "ninf" -> PyStr(0, "-inf")
      [] OTHER -> PyStr(0, value.t)

\* a + ' ' + b on two columns of the data frame: text, or NaN when either is missing
concat(a, b) == IF a.t = "str" /\ b.t = "str" THEN PyStr(a.v + b.v, "lit") ELSE NaN

\* pd.to_datetime on one value
to_datetime(value) == IF value.t = "str" THEN Datetime(value.v) ELSE NaT

\* series.fillna(fill) on one value
fillna(value, fill) == IF isna(value) THEN fill ELSE value

----------------------------------------------------------------------------
(* Data preparation *)

numeric_cols == {"Aging", "Sales", "Quantity", "Discount", "Profit", "Shipping_Cost"}

\* df['Transaction_Date'] = df['Order_Date'] + ' ' + df['Time'], on one row
with_transaction_date(row) ==
    [key \in DOMAIN row \cup {"Transaction_Date"} |->
        IF key = "Transaction_Date" THEN concat(row["Order_Date"], row["Time"])
        ELSE row[key]]

\* clean_record of dynamo_benchmark.py, one field
dynamo_clean_value(key, value) ==
    IF key = "Customer_Id" THEN str(value)
    ELSE IF isna(value) THEN (IF key \in numeric_cols THEN Decimal(0) ELSE PyStr(0, "N/A"))
    ELSE IF is_float(value) /\ isinf(value) THEN Decimal(0)
    ELSE IF is_int(value) THEN PyInt(value.v)
    ELSE IF is_float(value) THEN Decimal(value.v)
    ELSE value

dynamo_clean_record(record) ==
    [key \in DOMAIN record |-> dynamo_clean_value(key, record[key])]

\* clean_record of cassandra_benchmark.py, one field
astra_clean_value(key, value) ==
    IF key = "Customer_Id" THEN str(value)
    ELSE IF isna(value) THEN None
    ELSE IF is_float(value) /\ (isinf(value) \/ isnan(value)) THEN None
    ELSE IF is_int(value) THEN PyInt(value.v)
    ELSE IF is_float(value) THEN PyFloat(value.v)
    ELSE value

astra_clean_record(record) ==
    [key \in DOMAIN record |-> astra_clean_value(key, record[key])]

\* the column assignments of mongo_benchmark.py's prepare_data, one field
mongo_prepare_value(key, row) ==
    CASE key = "Aging" -> fillna(row[key], PyInt(0))
      [] key = "Sales" -> fillna(row[key], PyFloat(0))
      [] key = "Quantity" -> fillna(row[key], PyInt(0))
      [] key = "Transaction_Date" -> to_datetime(concat(row["Order_Date"], row["Time"]))
      [] OTHER -> row[key]

mongo_prepare_row(row) ==
    [key \in DOMAIN row \cup {"Transaction_Date"} |-> mongo_prepare_value(key, row)]

\* clean_record of script s
clean_record(s, record) ==
    IF s = "dynamo" THEN dynamo_clean_record(record) ELSE astra_clean_record(record)

\* A CSV file: whether it exists, its header and its rows.
NoFile == [exists |-> FALSE, cols |-> {}, rows |-> <<>>]

Ok(data) == [exc |-> "none", data |-> data]
Raise(exc) == [exc |-> exc, data |-> <<>>]

\* prepare_data of dynamo_benchmark.py and cassandra_benchmark.py
clean_prepare_data(s, file) ==
    IF ~file.exists THEN Ok(<<>>)
    ELSE IF ~({"Order_Date", "Time"} \subseteq file.cols) THEN Raise("KeyError")
    ELSE Ok([i \in 1..Len(file.rows) |->
                clean_record(s, with_transaction_date(file.rows[i]))])

\* prepare_data of mongo_benchmark.py
mongo_prepare_data(file) ==
    IF ~file.exists THEN Raise("FileNotFoundError")
    ELSE IF ~({"Aging", "Sales", "Quantity", "Order_Date", "Time"} \subseteq file.cols)
        THEN Raise("KeyError")
    ELSE Ok([i \in 1..Len(file.rows) |-> mongo_prepare_row(file.rows[i])])

prepare_data(s, file) ==
    IF s = "mongo" THEN mongo_prepare_data(file) ELSE clean_prepare_data(s, file)

----------------------------------------------------------------------------
(* Partitioning and chunking *)

SingleEnd == 10
BatchEnd == 1010
BulkEnd == 3010
AstraChunkSize == 20
MongoBatchSize == 100
Repeats == 10
DynamoDeleteCount == 100
TargetIdNumber == 37077

\* seq[a:b] of Python for 0 <= a <= b: truncated at the end of seq, never an error
Slice(seq, a, b) == SubSeq(seq, Min(a, Len(seq)) + 1, Min(b, Len(seq)))

\* seq[a:]
SliceFrom(seq, a) == SubSeq(seq, Min(a, Len(seq)) + 1, Len(seq))

single_insert_data == Slice(full_data, 0, SingleEnd)
batch_insert_data == Slice(full_data, SingleEnd, BatchEnd)
bulk_insert_data ==
    IF script = "mongo" THEN SliceFrom(full_data, BatchEnd)
    ELSE Slice(full_data, BatchEnd, BulkEnd)

\* a chunk that runs one record into the next chunk
chunk_at_overlapping(data, i, chunk_size) == Slice(data, i, i + chunk_size + 1)

\* the slice taken at loop offset i by the chunked insert loops
chunk_at(data, i, chunk_size) == Slice(data, i, i + chunk_size)

\* batches = [batch_insert_data[i:i + batch_size] for i in range(0, len(...), batch_size)]
batches ==
    [k \in 1..((Len(batch_insert_data) + MongoBatchSize - 1) \div MongoBatchSize) |->
        chunk_at(batch_insert_data, (k - 1) * MongoBatchSize, MongoBatchSize)]

\* what the Insert (all) category hands to the store
bulk_argument == IF script = "mongo" THEN full_data ELSE bulk_insert_data

\* a target identity that is the integer in every script
target_id_integer == PyInt(TargetIdNumber)

\* target_id of each script
target_id ==
    IF script = "mongo" THEN PyInt(TargetIdNumber) ELSE PyStr(TargetIdNumber, "int")

----------------------------------------------------------------------------
(* run_benchmark: bookkeeping *)

Scripts == {"mongo", "astra", "dynamo"}

TNames == {"single", "multiple", "all", "read_specific", "read_all",
           "update_specific", "update_many", "delete_specific", "delete_many",
           "overall"}

NotSet == 0 - 1

RECURSIVE SumSeq(_)
SumSeq(seq) == IF seq = <<>> THEN 0 ELSE Head(seq) + SumSeq(Tail(seq))

Durations(samples) == [k \in 1..Len(samples) |-> samples[k].dur]

\* a sum that leaves the last sample out
sum_samples_but_last(samples) ==
    SumSeq(Durations(SubSeq(samples, 1, Len(samples) - 1)))

\* sum(read_latencies), sum(update_latencies)
sum_samples(samples) == SumSeq(Durations(samples))

\* the section of the script a position belongs to (the print("Running ... Tests") lines)
Phase(p) ==
    CASE p \in {"connect", "load"} -> "Idle"
      [] p \in {"clear", "single", "batch", "bulk_clear", "bulk"} -> "Inserting"
      [] p \in {"read_specific", "read_all"} -> "Reading"
      [] p \in {"update_specific", "update_many"} -> "Updating"
      [] p \in {"delete_setup", "delete_specific", "delete_many"} -> "Deleting"
      [] p \in {"aggregate", "overall"} -> "Reporting"
      [] p = "done" -> "Done"

\* an order of the sections in which the updates follow the inserts directly
next_pc_skipping_read(s, p) ==
    CASE p = "connect" -> "load"
      [] p = "load" -> IF s = "astra" THEN "clear" ELSE "single"
      [] p = "clear" -> "single"
      [] p = "single" -> "batch"
      [] p = "batch" -> IF s = "mongo" THEN "bulk_clear" ELSE "bulk"
      [] p = "bulk_clear" -> "bulk"
      [] p = "bulk" -> "update_specific"
      [] p = "update_specific" -> "update_many"
      [] p = "update_many" -> IF s = "mongo" THEN "delete_setup" ELSE "delete_specific"
      [] p = "delete_setup" -> "delete_specific"
      [] p = "delete_specific" -> "delete_many"
      [] p = "delete_many" -> "aggregate"
      [] p = "aggregate" -> "overall"
      [] p = "overall" -> "done"

\* the position that follows p in the text of script s
next_pc(s, p) ==
    CASE p = "connect" -> "load"
      [] p = "load" -> IF s = "astra" THEN "clear" ELSE "single"
      [] p = "clear" -> "single"
      [] p = "single" -> "batch"
      [] p = "batch" -> IF s = "mongo" THEN "bulk_clear" ELSE "bulk"
      [] p = "bulk_clear" -> "bulk"
      [] p = "bulk" -> "read_specific"
      [] p = "read_specific" -> "read_all"
      [] p = "read_all" -> "update_specific"
      [] p = "update_specific" -> "update_many"
      [] p = "update_many" -> IF s = "mongo" THEN "delete_setup" ELSE "delete_specific"
      [] p = "delete_setup" -> "delete_specific"
      [] p = "delete_specific" -> "delete_many"
      [] p = "delete_many" -> "aggregate"
      [] p = "aggregate" -> "overall"
      [] p = "overall" -> "done"

\* a latency sample: the call that was timed and (time.time() - op_start)
Sample(op, dur) == [op |-> op, dur |-> dur]

\* an extend that puts the new samples in place of the list
extend_replacing(list, more) == more

\* an extend that puts the new samples in front of the list
extend_in_front(list, more) == more \o list

\* latencies.extend(more)
extend(list, more) == list \o more

NoCall == [op |-> "none", cat |-> "none", n |-> 0, ok |-> TRUE]

\* op_start = time.time(), read right before the call
op_start == now + ovh

\* one call of the store client: it is reached after ovh ticks, takes lat ticks
\* and returns or raises
Issue(op, n, ok) ==
    /\ ncalls' = ncalls + 1
    /\ nfailed' = nfailed + (IF ok THEN 0 ELSE 1)
    /\ lastCall' = [op |-> op, cat |-> pc, n |-> n, ok |-> ok]
    /\ now' = now + ovh + lat

\* an exception that nothing catches leaves run_benchmark
Uncaught(exc) ==
    /\ status' = "crashed"
    /\ error' = exc
    /\ UNCHANGED <<script, csv, full_data, lat, ovh, store, pc, idx, t_start, latencies,
                   read_latencies, update_latencies, delete_latencies, t, sent, report>>

Failed(op, n) == Issue(op, n, FALSE) /\ Uncaught("StoreError")

Goto(p) == pc' = p /\ UNCHANGED <<status, error>>

fixed == <<script, csv, lat, ovh>>

----------------------------------------------------------------------------
(* The store *)

DummyIdNumber == 99999

\* {"Customer_Id": 99999, "Name": "Delete Me"}
dummy_id == PyInt(DummyIdNumber)

\* the values of Order_Priority the scripts name
Medium == PyStr(1, "lit")
High == PyStr(2, "lit")
Standard == PyStr(3, "lit")

\* a field a record does not have
Absent == [t |-> "absent", v |-> 0, s |-> ""]

field(record, name) == IF name \in DOMAIN record THEN record[name] ELSE Absent

\* whether a stored value satisfies the filter {"Customer_Id": id} or is the key
\* `id`: the same value, or (Mongo compares numbers by value) the float of an integer
matches(value, id) ==
    \/ value = id
    \/ script = "mongo" /\ value.t = "float" /\ id.t = "int" /\ value.v = id.v * 100

\* the identity a part of `store` is about
watched(key) == IF key = "target" THEN target_id ELSE dummy_id

EmptyStore == [target |-> <<>>, dummy |-> <<>>]

\* a store that holds a record of the target identity from before the run
StaleStore == [EmptyStore EXCEPT !.target = <<[prio |-> Medium, phase |-> "Before"]>>]

\* what is kept of the records of identity id among `records`, inserted now
stored(records, id) ==
    LET found == SelectSeq(records, LAMBDA r : matches(field(r, "Customer_Id"), id))
    IN [k \in 1..Len(found) |->
           [prio |-> field(found[k], "Order_Priority"), phase |-> Phase(pc)]]

\* a DynamoDB table refuses an item without its key attribute
refused(records) ==
    /\ script = "dynamo"
    /\ \E k \in 1..Len(records) : "Customer_Id" \notin DOMAIN records[k]

\* the ways a call that writes `records` can end
Outcomes(records) == IF refused(records) THEN {FALSE} ELSE BOOLEAN

\* insert_one / insert_many add documents; put_item replaces the item of the key
insert_records(held, records) ==
    [key \in DOMAIN held |->
        LET new == stored(records, watched(key)) IN
        IF script = "dynamo"
        THEN (IF new = <<>> THEN held[key] ELSE <<new[Len(new)]>>)
        ELSE held[key] \o new]

\* delete_many({})
delete_all(held) == [key \in DOMAIN held |-> <<>>]

\* {"$set": {"Order_Priority": "High"}} on the first record of the target
\* identity; update_item creates the item when the table has none
set_priority_high(held) ==
    [held EXCEPT !.target =
        IF @ = <<>>
        THEN (IF script = "dynamo" THEN <<[prio |-> High, phase |-> Phase(pc)]>> ELSE @)
        ELSE [@ EXCEPT ![1].prio = High]]

\* an update that sets Discount: update_item creates the item when there is none
set_discount(held) ==
    [held EXCEPT !.target =
        IF @ = <<>> /\ script = "dynamo"
        THEN <<[prio |-> Absent, phase |-> Phase(pc)]>> ELSE @]

\* update_many({"Order_Priority": "Medium"}, {"$set": {"Order_Priority": "Standard"}})
medium_to_standard(held) ==
    [key \in DOMAIN held |->
        [k \in 1..Len(held[key]) |->
            IF held[key][k].prio = Medium
            THEN [held[key][k] EXCEPT !.prio = Standard] ELSE held[key][k]]]

\* Update (many) of the Mongo and Astra scripts
update_many(held) == IF script = "mongo" THEN medium_to_standard(held) ELSE set_discount(held)

\* the identity Delete (specific) names
delete_key == IF script = "mongo" THEN "dummy" ELSE "target"

\* delete_one / delete_item: the first record of that identity goes
delete_first(held, key) ==
    [held EXCEPT ![key] = IF @ = <<>> THEN @ ELSE Tail(@)]

\* delete_many({"Order_Priority": prio})
delete_priority(held, prio) ==
    [key \in DOMAIN held |-> SelectSeq(held[key], LAMBDA e : e.prio # prio)]

\* batch.delete_item for each of `records`
delete_keys(held, records) ==
    [key \in DOMAIN held |->
        IF stored(records, watched(key)) = <<>> THEN held[key] ELSE <<>>]

----------------------------------------------------------------------------
(* run_benchmark: CONNECT and LOAD DATA *)

\* CONNECT: the Astra and Dynamo scripts print "Connection Failed" and return
Connect ==
    /\ status = "running" /\ pc = "connect"
    /\ \E ok \in (IF script = "mongo" THEN {TRUE} ELSE BOOLEAN) :
          IF ok THEN Goto(next_pc(script, pc))
          ELSE status' = "returned" /\ UNCHANGED <<pc, error>>
    /\ UNCHANGED <<fixed, store, full_data, idx, t_start, now, latencies, read_latencies,
                   update_latencies, delete_latencies, t, ncalls, nfailed, lastCall,
                   sent, report>>

\* LOAD DATA: full_data = prepare_data(FILE_PATH); if not full_data: return
LoadData ==
    /\ status = "running" /\ pc = "load"
    /\ LET r == prepare_data(script, csv) IN
          IF r.exc # "none"
          THEN status' = "crashed" /\ error' = r.exc /\ UNCHANGED <<pc, full_data>>
          ELSE /\ full_data' = r.data
               /\ IF script # "mongo" /\ r.data = <<>>
                  THEN status' = "returned" /\ UNCHANGED <<pc, error>>
                  ELSE Goto(next_pc(script, pc))
    /\ idx' = 0
    /\ t_start' = now
    /\ UNCHANGED <<fixed, store, now, latencies, read_latencies, update_latencies,
                   delete_latencies, t, ncalls, nfailed, lastCall, sent, report>>

----------------------------------------------------------------------------
(* TABLE 1: INSERT *)

\* cassandra_benchmark.py: try: collection.delete_many({}) except: pass
ClearCollection ==
    /\ status = "running" /\ pc = "clear"
    /\ \E ok \in BOOLEAN :
          /\ Issue("delete_many", 0, ok)
          /\ store' = IF ok THEN delete_all(store) ELSE store
    /\ Goto(next_pc(script, pc))
    /\ idx' = 0
    /\ t_start' = now'
    /\ UNCHANGED <<fixed, full_data, latencies, read_latencies, update_latencies,
                   delete_latencies, t, sent, report>>

\* one turn of: for record in single_insert_data
InsertSingle ==
    /\ status = "running" /\ pc = "single"
    /\ idx < Len(single_insert_data)
    /\ \E ok \in Outcomes(<<single_insert_data[idx + 1]>>) :
          IF ok
          THEN /\ Issue("insert_one", 1, TRUE)
               /\ latencies' = Append(latencies, Sample("insert_one", now' - op_start))
               /\ store' = insert_records(store, <<single_insert_data[idx + 1]>>)
               /\ idx' = idx + 1
               /\ UNCHANGED <<fixed, full_data, pc, status, error, t_start,
                              read_latencies, update_latencies, delete_latencies, t,
                              sent, report>>
          ELSE Failed("insert_one", 1)

\* t_single = (time.time() - t_start) * 1000
InsertSingleDone ==
    /\ status = "running" /\ pc = "single"
    /\ idx = Len(single_insert_data)
    /\ t' = [t EXCEPT !["single"] = now - t_start]
    /\ Goto(next_pc(script, pc))
    /\ idx' = 0
    /\ t_start' = now
    /\ UNCHANGED <<fixed, store, full_data, now, latencies, read_latencies, update_latencies,
                   delete_latencies, ncalls, nfailed, lastCall, sent, report>>

\* an insert-many call of the batch or bulk category with argument chunk, after
\* which the loop stands at nextIdx; the Astra loops skip an empty chunk (if chunk:)
\* and a batch_writer with nothing buffered sends nothing
InsertManyStep(chunk, nextIdx) ==
    IF chunk = <<>>
    THEN /\ idx' = nextIdx
         /\ UNCHANGED <<fixed, store, full_data, pc, status, error, t_start, now, latencies,
                        read_latencies, update_latencies, delete_latencies, t, ncalls,
                        nfailed, lastCall, sent, report>>
    ELSE \E ok \in Outcomes(chunk) :
          IF ok
          THEN /\ Issue("insert_many", Len(chunk), TRUE)
               /\ sent' = [sent EXCEPT ![pc] = @ \o chunk]
               /\ store' = insert_records(store, chunk)
               /\ idx' = nextIdx
               /\ UNCHANGED <<fixed, full_data, pc, status, error, t_start, latencies,
                              read_latencies, update_latencies, delete_latencies, t,
                              report>>
          ELSE Failed("insert_many", Len(chunk))

\* where the loop of the batch or bulk category ends
LoopEnd(data) ==
    CASE script = "astra" -> Len(data)
      [] script = "mongo" /\ pc = "batch" -> Len(batches)
      [] OTHER -> 1

\* one turn of the Insert (multiple) category
InsertBatch ==
    /\ status = "running" /\ pc = "batch"
    /\ idx < LoopEnd(batch_insert_data)
    /\ CASE script = "astra" ->
                InsertManyStep(chunk_at(batch_insert_data, idx, AstraChunkSize),
                               idx + AstraChunkSize)
          [] script = "mongo" -> InsertManyStep(batches[idx + 1], idx + 1)
          [] script = "dynamo" -> InsertManyStep(batch_insert_data, 1)

\* t_multiple = (time.time() - t_start) * 1000
InsertBatchDone ==
    /\ status = "running" /\ pc = "batch"
    /\ idx >= LoopEnd(batch_insert_data)
    /\ t' = [t EXCEPT !["multiple"] = now - t_start]
    /\ Goto(next_pc(script, pc))
    /\ idx' = 0
    /\ t_start' = now
    /\ UNCHANGED <<fixed, store, full_data, now, latencies, read_latencies, update_latencies,
                   delete_latencies, ncalls, nfailed, lastCall, sent, report>>

\* mongo_benchmark.py: collection.delete_many({}) before the bulk load
BulkClear ==
    /\ status = "running" /\ pc = "bulk_clear"
    /\ \E ok \in BOOLEAN :
          IF ok
          THEN /\ Issue("delete_many", 0, TRUE)
               /\ store' = delete_all(store)
               /\ Goto(next_pc(script, pc))
               /\ idx' = 0
               /\ t_start' = now'
               /\ UNCHANGED <<fixed, full_data, latencies, read_latencies,
                              update_latencies, delete_latencies, t, sent, report>>
          ELSE Failed("delete_many", 0)

\* one turn of the Insert (all) category; pymongo's insert_many raises TypeError
\* for an empty list before anything is sent
InsertBulk ==
    /\ status = "running" /\ pc = "bulk"
    /\ idx < LoopEnd(bulk_insert_data)
    /\ CASE script = "astra" ->
                InsertManyStep(chunk_at(bulk_insert_data, idx, AstraChunkSize),
                               idx + AstraChunkSize)
          [] script = "mongo" ->
                IF bulk_argument = <<>>
                THEN Uncaught("TypeError") /\ UNCHANGED <<now, ncalls, nfailed, lastCall>>
                ELSE InsertManyStep(bulk_argument, 1)
          [] script = "dynamo" -> InsertManyStep(bulk_argument, 1)

\* t_all = (time.time() - t_start) * 1000 and the prints of TABLE 1
InsertBulkDone ==
    /\ status = "running" /\ pc = "bulk"
    /\ idx >= LoopEnd(bulk_insert_data)
    /\ t' = [t EXCEPT !["all"] = now - t_start]
    /\ Goto(next_pc(script, pc))
    /\ idx' = 0
    /\ read_latencies' = <<>>
    /\ UNCHANGED <<fixed, store, full_data, t_start, now, latencies, update_latencies,
                   delete_latencies, ncalls, nfailed, lastCall, sent, report>>

----------------------------------------------------------------------------
(* TABLE 2: READ *)

\* one turn of: for _ in range(10), timed get by key
ReadSpecific ==
    /\ status = "running" /\ pc = "read_specific"
    /\ idx < Repeats
    /\ \E ok \in BOOLEAN :
          IF ok
          THEN /\ Issue("get_by_key", 1, TRUE)
               /\ read_latencies' = Append(read_latencies, Sample("get_by_key", now' - op_start))
               /\ idx' = idx + 1
               /\ UNCHANGED <<fixed, store, full_data, pc, status, error, t_start, latencies,
                              update_latencies, delete_latencies, t, sent, report>>
          ELSE Failed("get_by_key", 1)

\* t_read_specific = sum(read_latencies)
ReadSpecificDone ==
    /\ status = "running" /\ pc = "read_specific"
    /\ idx = Repeats
    /\ t' = [t EXCEPT !["read_specific"] = sum_samples(read_latencies)]
    /\ Goto(next_pc(script, pc))
    /\ idx' = 0
    /\ UNCHANGED <<fixed, store, full_data, t_start, now, latencies, read_latencies,
                   update_latencies, delete_latencies, ncalls, nfailed, lastCall, sent,
                   report>>

\* a Read (all) that also records its own duration in `latencies`
after_read_all_recording_scan(list, specific, t_read_all) ==
    Append(extend(list, specific), t_read_all)

\* what `latencies` is after the Read (all) call: latencies.extend(read_latencies)
after_read_all(list, specific, t_read_all) == extend(list, specific)

\* Read (all), then latencies.extend(read_latencies) and the prints of TABLE 2
ReadAll ==
    /\ status = "running" /\ pc = "read_all"
    /\ \E ok \in BOOLEAN :
          IF ok
          THEN /\ Issue("scan", 0, TRUE)
               /\ t' = [t EXCEPT !["read_all"] = now' - op_start]
               /\ latencies' = after_read_all(latencies, read_latencies,
                                               Sample("scan", now' - op_start))
               /\ Goto(next_pc(script, pc))
               /\ idx' = 0
               /\ update_latencies' = <<>>
               /\ UNCHANGED <<fixed, store, full_data, t_start, read_latencies,
                              delete_latencies, sent, report>>
          ELSE Failed("scan", 0)

----------------------------------------------------------------------------
(* TABLE 3: UPDATE *)

\* one turn of: for _ in range(10), timed update by key
UpdateSpecific ==
    /\ status = "running" /\ pc = "update_specific"
    /\ idx < Repeats
    /\ \E ok \in BOOLEAN :
          IF ok
          THEN /\ Issue("update_one", 1, TRUE)
               /\ update_latencies' =
                      Append(update_latencies, Sample("update_one", now' - op_start))
               /\ store' = set_priority_high(store)
               /\ idx' = idx + 1
               /\ UNCHANGED <<fixed, full_data, pc, status, error, t_start, latencies,
                              read_latencies, delete_latencies, t, sent, report>>
          ELSE Failed("update_one", 1)

\* t_update_specific = sum(update_latencies); t_start of Update (many)
UpdateSpecificDone ==
    /\ status = "running" /\ pc = "update_specific"
    /\ idx = Repeats
    /\ t' = [t EXCEPT !["update_specific"] = sum_samples(update_latencies)]
    /\ Goto(next_pc(script, pc))
    /\ idx' = 0
    /\ t_start' = now
    /\ UNCHANGED <<fixed, store, full_data, now, latencies, read_latencies, update_latencies,
                   delete_latencies, ncalls, nfailed, lastCall, sent, report>>

\* Update (many) of the Mongo and Astra scripts: one update_many call, then
\* latencies.extend(update_latencies) and the prints of TABLE 3
UpdateMany ==
    /\ status = "running" /\ pc = "update_many"
    /\ script # "dynamo"
    /\ \E ok \in BOOLEAN :
          IF ok
          THEN /\ Issue("update_many", 0, TRUE)
               /\ t' = [t EXCEPT !["update_many"] = now' - t_start]
               /\ latencies' = extend(latencies, update_latencies)
               /\ store' = update_many(store)
               /\ Goto(next_pc(script, pc))
               /\ idx' = 0
               /\ delete_latencies' = <<>>
               /\ UNCHANGED <<fixed, full_data, t_start, read_latencies,
                              update_latencies, sent, report>>
          ELSE Failed("update_many", 0)

\* Update (many) of the Dynamo script: one turn of for i in range(10): update_item
UpdateManyLoop ==
    /\ status = "running" /\ pc = "update_many"
    /\ script = "dynamo"
    /\ idx < Repeats
    /\ \E ok \in BOOLEAN :
          IF ok
          THEN /\ Issue("update_one", 1, TRUE)
               /\ store' = set_discount(store)
               /\ idx' = idx + 1
               /\ UNCHANGED <<fixed, full_data, pc, status, error, t_start, latencies,
                              read_latencies, update_latencies, delete_latencies, t,
                              sent, report>>
          ELSE Failed("update_one", 1)

\* the Dynamo script after that loop: t_update_many, latencies.extend(update_latencies)
UpdateManyLoopDone ==
    /\ status = "running" /\ pc = "update_many"
    /\ script = "dynamo"
    /\ idx = Repeats
    /\ t' = [t EXCEPT !["update_many"] = now - t_start]
    /\ latencies' = extend(latencies, update_latencies)
    /\ Goto(next_pc(script, pc))
    /\ idx' = 0
    /\ delete_latencies' = <<>>
    /\ UNCHANGED <<fixed, store, full_data, t_start, now, read_latencies, update_latencies,
                   ncalls, nfailed, lastCall, sent, report>>

----------------------------------------------------------------------------
(* TABLE 4: DELETE *)

dummy_record == [Customer_Id |-> dummy_id, Name |-> PyStr(0, "lit")]

\* mongo_benchmark.py: collection.insert_one({"Customer_Id": 99999, "Name": "Delete Me"})
InsertDummy ==
    /\ status = "running" /\ pc = "delete_setup"
    /\ \E ok \in BOOLEAN :
          IF ok
          THEN /\ Issue("insert_one", 1, TRUE)
               /\ store' = insert_records(store, <<dummy_record>>)
               /\ Goto(next_pc(script, pc))
               /\ UNCHANGED <<fixed, full_data, idx, t_start, latencies, read_latencies,
                              update_latencies, delete_latencies, t, sent, report>>
          ELSE Failed("insert_one", 1)

\* Delete (specific): one timed delete by key; t_start of Delete (many)
DeleteSpecific ==
    /\ status = "running" /\ pc = "delete_specific"
    /\ \E ok \in BOOLEAN :
          IF ok
          THEN /\ Issue("delete_one", 1, TRUE)
               /\ t' = [t EXCEPT !["delete_specific"] = now' - op_start]
               /\ delete_latencies' =
                      Append(delete_latencies, Sample("delete_one", now' - op_start))
               /\ store' = delete_first(store, delete_key)
               /\ Goto(next_pc(script, pc))
               /\ t_start' = now'
               /\ UNCHANGED <<fixed, full_data, idx, latencies, read_latencies,
                              update_latencies, sent, report>>
          ELSE Failed("delete_one", 1)

\* the keys the Dynamo script deletes in a batch: batch_insert_data[:100]
delete_many_records == Slice(batch_insert_data, 0, DynamoDeleteCount)

\* str(record['Customer_Id']) raises KeyError on a record without the column
delete_many_key_error ==
    /\ script = "dynamo"
    /\ \E k \in 1..Len(delete_many_records) :
          "Customer_Id" \notin DOMAIN delete_many_records[k]

\* number of records the Delete (many) call names (0: by predicate)
delete_many_size == IF script = "dynamo" THEN Len(delete_many_records) ELSE 0

\* what Delete (many) removes: the Mongo script the records it set to "Standard",
\* the Astra script the "Medium" ones, the Dynamo script the keys of a slice
delete_many(held) ==
    CASE script = "mongo" -> delete_priority(held, Standard)
      [] script = "astra" -> delete_priority(held, Medium)
      [] script = "dynamo" -> delete_keys(held, delete_many_records)

\* Delete (many), then latencies.extend(delete_latencies) and the prints of TABLE 4
DeleteMany ==
    /\ status = "running" /\ pc = "delete_many"
    /\ IF delete_many_key_error
       THEN Uncaught("KeyError") /\ UNCHANGED <<now, ncalls, nfailed, lastCall>>
       ELSE \E ok \in BOOLEAN :
          IF ok
          THEN /\ IF script = "dynamo" /\ delete_many_records = <<>>
                  THEN UNCHANGED <<now, ncalls, nfailed, lastCall>>
                  ELSE Issue("delete_many", delete_many_size, TRUE)
               /\ store' = delete_many(store)
               /\ t' = [t EXCEPT !["delete_many"] = now' - t_start]
               /\ latencies' = extend(latencies, delete_latencies)
               /\ Goto(next_pc(script, pc))
               /\ UNCHANGED <<fixed, full_data, idx, t_start, read_latencies,
                              update_latencies, delete_latencies, sent, report>>
          ELSE Failed("delete_many", delete_many_size)

----------------------------------------------------------------------------
(* TABLE 5: AGGREGATE and TABLE 6: OVERALL *)

NoReport == [outcome |-> "none", min |-> 0, max |-> 0, sum |-> 0, count |-> 0]

MinOf(seq) == CHOOSE x \in {seq[k] : k \in 1..Len(seq)} :
                 \A k \in 1..Len(seq) : x <= seq[k]

MaxOf(seq) == CHOOSE x \in {seq[k] : k \in 1..Len(seq)} :
                 \A k \in 1..Len(seq) : x >= seq[k]

\* min, max, sum and len of the list; AVG is sum / count
Statistics(durs) ==
    [outcome |-> "printed", min |-> MinOf(durs), max |-> MaxOf(durs),
     sum |-> SumSeq(durs), count |-> Len(durs)]

\* TABLE 5 of script s on the list `latencies`: mongo_benchmark.py calls
\* min(latencies) unguarded, which raises ValueError on an empty list; the other
\* two scripts print the table only `if latencies:`
aggregate(s, list) ==
    IF s = "mongo"
    THEN (IF list = <<>> THEN [NoReport EXCEPT !.outcome = "ValueError"]
          ELSE Statistics(Durations(list)))
    ELSE (IF list # <<>> THEN Statistics(Durations(list))
          ELSE [NoReport EXCEPT !.outcome = "skipped"])

Aggregate ==
    /\ status = "running" /\ pc = "aggregate"
    /\ LET r == aggregate(script, latencies) IN
          /\ report' = r
          /\ IF r.outcome = "ValueError"
             THEN status' = "crashed" /\ error' = "ValueError" /\ UNCHANGED pc
             ELSE Goto(next_pc(script, pc))
    /\ UNCHANGED <<fixed, store, full_data, idx, t_start, now, latencies, read_latencies,
                   update_latencies, delete_latencies, t, ncalls, nfailed, lastCall,
                   sent>>

\* overall = t_single + ... + t_delete_many, the last print, and the return
Overall ==
    /\ status = "running" /\ pc = "overall"
    /\ t' = [t EXCEPT !["overall"] =
                t["single"] + t["multiple"] + t["all"] + t["read_specific"]
                + t["read_all"] + t["update_specific"] + t["update_many"]
                + t["delete_specific"] + t["delete_many"]]
    /\ pc' = next_pc(script, pc)
    /\ status' = "done"
    /\ UNCHANGED <<fixed, store, error, full_data, idx, t_start, now, latencies,
                   read_latencies, update_latencies, delete_latencies, ncalls, nfailed,
                   lastCall, sent, report>>

----------------------------------------------------------------------------
(* Inputs *)

MaxExtra == 1
MaxLat == 2
MaxOvh == 1
MaxSamples == 3
MaxDur == 2

\* Dataset lengths: around every boundary of the partition and of the chunking
Boundaries == {0, SingleEnd, SingleEnd + AstraChunkSize, SingleEnd + MongoBatchSize,
               BatchEnd, BulkEnd}

Lengths == {b + d : b \in Boundaries, d \in (0 - MaxExtra)..MaxExtra} \cap Nat

IsLong(n) == n > SingleEnd + MongoBatchSize + MaxExtra

\* row i of a generated file; row tpos, if any, is the one of customer 37077
GeneratedRow(i, tpos) ==
    [Customer_Id |-> PyInt(IF i = tpos THEN TargetIdNumber ELSE TargetIdNumber + i),
     Aging |-> PyInt(i % 7),
     Sales |-> IF i % 5 = 0 THEN NaN ELSE PyFloat(100 + i),
     Quantity |-> PyInt(1 + (i % 3)),
     Order_Priority |-> PyStr(i % 3, "lit"),
     Order_Date |-> PyStr(i, "lit"),
     Time |-> PyStr(0, "lit")]

WithoutId(row) == [key \in DOMAIN row \ {"Customer_Id"} |-> row[key]]

GeneratedFile(n, hasId, tpos) ==
    [exists |-> TRUE,
     cols |-> IF hasId THEN DOMAIN GeneratedRow(1, 0)
              ELSE DOMAIN GeneratedRow(1, 0) \ {"Customer_Id"},
     rows |-> [i \in 1..n |-> IF hasId THEN GeneratedRow(i, tpos)
                                ELSE WithoutId(GeneratedRow(i, tpos))]]

\* a file whose header lacks the date and time columns
HeaderOnlyFile == [exists |-> TRUE, cols |-> {"Customer_Id"}, rows |-> <<>>]

\* the files a run is started on: every short one, the long ones with the
\* identity column and customer 37077 in the first row, and the ones of more
\* than BulkEnd rows with customer 37077 in the last row
RunFiles ==
    {NoFile, HeaderOnlyFile}
    \cup {GeneratedFile(n, hasId, tpos) :
             n \in {m \in Lengths : ~IsLong(m)}, hasId \in BOOLEAN, tpos \in {0, 1}}
    \cup {GeneratedFile(n, TRUE, 1) : n \in {m \in Lengths : IsLong(m)}}
    \cup {GeneratedFile(n, TRUE, n) : n \in {m \in Lengths : m > BulkEnd}}

\* Raw values of one field, for the rows the normalizers are applied to
RawValues == {PyStr(1, "lit"), PyInt(5), PyFloat(1999), PyBool(1), None, NaN, Inf, NegInf}
RawIds == {PyInt(TargetIdNumber), PyInt(12345), PyFloat(TargetIdNumber * 100), None, NaN,
           PyStr(2, "lit")}
RawMeasures == {PyFloat(1999), None, NaN, Inf}
RawCounts == {PyInt(5), NaN}
RawTexts == {PyStr(3, "lit"), NaN}

RawRowsWithId ==
    {[Customer_Id |-> id, Aging |-> ag, Sales |-> sa, Quantity |-> ag, Discount |-> di,
      Order_Priority |-> op, Order_Date |-> od, Time |-> ti] :
        id \in RawIds, ag \in RawCounts, sa \in RawMeasures, di \in RawValues,
        op \in RawValues, od \in RawTexts, ti \in RawTexts}

RawRows == RawRowsWithId \cup {WithoutId(row) : row \in RawRowsWithId}

OneRowFile(row) == [exists |-> TRUE, cols |-> DOMAIN row, rows |-> <<row>>]

RECURSIVE SeqsUpTo(_, _)
SeqsUpTo(S, n) ==
    IF n = 0 THEN {<<>>}
    ELSE LET shorter == SeqsUpTo(S, n - 1) IN
         shorter \cup {Append(q, x) : q \in shorter, x \in S}

----------------------------------------------------------------------------
(* Specifications *)

InitCommon ==
    /\ status = "running"
    /\ error = "none"
    /\ full_data = <<>>
    /\ idx = 0
    /\ t_start = 0
    /\ now = 0
    /\ read_latencies = <<>>
    /\ update_latencies = <<>>
    /\ delete_latencies = <<>>
    /\ ncalls = 0
    /\ nfailed = 0
    /\ lastCall = NoCall
    /\ sent = [batch |-> <<>>, bulk |-> <<>>]
    /\ report = NoReport

\* a run of one script on one file
Init ==
    /\ script \in Scripts
    /\ csv \in RunFiles
    /\ lat \in (IF IsLong(Len(csv.rows)) THEN {1} ELSE 1..MaxLat)
    /\ ovh \in (IF IsLong(Len(csv.rows)) THEN {0} ELSE 0..MaxOvh)
    /\ store \in (IF lat = 1 /\ ovh = 0 /\ ~IsLong(Len(csv.rows))
                  THEN {EmptyStore, StaleStore} ELSE {EmptyStore})
    /\ pc = "connect"
    /\ latencies = <<>>
    /\ t = [name \in TNames |-> NotSet]
    /\ InitCommon

Next ==
    \/ Connect
    \/ LoadData
    \/ ClearCollection
    \/ InsertSingle
    \/ InsertSingleDone
    \/ InsertBatch
    \/ InsertBatchDone
    \/ BulkClear
    \/ InsertBulk
    \/ InsertBulkDone
    \/ ReadSpecific
    \/ ReadSpecificDone
    \/ ReadAll
    \/ UpdateSpecific
    \/ UpdateSpecificDone
    \/ UpdateMany
    \/ UpdateManyLoop
    \/ UpdateManyLoopDone
    \/ InsertDummy
    \/ DeleteSpecific
    \/ DeleteMany
    \/ Aggregate
    \/ Overall

Spec == Init /\ [][Next]_vars

\* the data preparation step alone, on every one-row file
InitNorm ==
    /\ script \in Scripts
    /\ csv \in {OneRowFile(row) : row \in RawRows}
    /\ lat = 1
    /\ ovh = 0
    /\ store = EmptyStore
    /\ pc = "load"
    /\ latencies = <<>>
    /\ t = [name \in TNames |-> NotSet]
    /\ InitCommon

NextNorm == LoadData

SpecNorm == InitNorm /\ [][NextNorm]_vars

\* TABLE 5 and TABLE 6 alone, on every short list of samples
InitAgg ==
    /\ script \in Scripts
    /\ csv = NoFile
    /\ lat = 1
    /\ ovh = 0
    /\ store = EmptyStore
    /\ pc = "aggregate"
    /\ latencies \in SeqsUpTo({Sample("insert_one", d) : d \in 1..MaxDur}, MaxSamples)
    /\ t = [name \in TNames |-> IF name = "overall" THEN NotSet ELSE 0]
    /\ InitCommon

NextAgg == Aggregate \/ Overall

SpecAgg == InitAgg /\ [][NextAgg]_vars

----------------------------------------------------------------------------
(* Properties *)

Loaded == pc # "connect" /\ pc # "load"

IsPrefix(p, q) == Len(p) <= Len(q) /\ p = SubSeq(q, 1, Len(p))

NonFinite(value) == value.t \in {"nan", "inf", "ninf"}

\* the raw values the normalizer has to replace
Unusable(value) == value.t \in {"none", "nan", "inf", "ninf"}

PhaseRank(ph) ==
    CASE ph = "Idle" -> 0
      [] ph = "Inserting" -> 1
      [] ph = "Reading" -> 2
      [] ph = "Updating" -> 3
      [] ph = "Deleting" -> 4
      [] ph = "Reporting" -> 5
      [] ph = "Done" -> 6

\* the state a store operation belongs to
OpRank(op) ==
    CASE op \in {"insert_one", "insert_many"} -> 1
      [] op \in {"get_by_key", "scan"} -> 2
      [] op \in {"update_one", "update_many"} -> 3
      [] op \in {"delete_one", "delete_many"} -> 4

SpecificOps == {"insert_one", "get_by_key", "update_one", "delete_one"}

\* C1: after data preparation no field of any record is NaN, +Infinity or
\* -Infinity, in each of the three scripts.
C1_NoNonFiniteValue ==
    Loaded =>
        \A k \in 1..Len(full_data) : \A key \in DOMAIN full_data[k] :
            ~NonFinite(full_data[k][key])

C3_MissingIdentityAborts ==
    (csv.exists /\ csv.rows # <<>> /\ "Customer_Id" \notin csv.cols) =>
        /\ ncalls = 0
        /\ (pc # "connect" /\ pc # "load") => error = "ValidationError"

\* C4: a non-identity field whose raw value is null, NaN or an infinity becomes a
\* numeric zero in a numeric column, and a sentinel text or null in any other
\* column.
C4_SubstitutionByColumnClass ==
    Loaded =>
        \A k \in 1..Len(full_data) : \A key \in DOMAIN csv.rows[k] \ {"Customer_Id"} :
            Unusable(csv.rows[k][key]) =>
                IF key \in numeric_cols
                THEN /\ full_data[k][key].t \in {"int", "decimal", "float"}
                     /\ full_data[k][key].v = 0
                ELSE \/ full_data[k][key] = None
                     \/ full_data[k][key] = PyStr(0, "N/A")

\* C5: single ++ batch ++ bulk is a prefix of the prepared records, and once the
\* Insert (all) category is over the records it sent are exactly the bulk slice.
C5_PartitionAndBulkSlice ==
    Loaded =>
        /\ IsPrefix(single_insert_data \o batch_insert_data \o bulk_insert_data, full_data)
        /\ PhaseRank(Phase(pc)) > 1 => sent["bulk"] = bulk_insert_data

\* the chunk size of the chunked insert loops
ChunkSize == IF script = "mongo" THEN MongoBatchSize ELSE AstraChunkSize

\* C6: in the chunked insert loops (Astra batch and bulk, Mongo batch) every
\* insert-many call gets between 1 and n records, the records sent so far are a
\* prefix of the slice, they are the whole slice once the loop is over, and an
\* empty slice leads to no call.
C6_ChunkedInsert ==
    (Loaded /\ script \in {"astra", "mongo"}) =>
        /\ (lastCall.op = "insert_many" /\ lastCall.cat = "batch") =>
              (1 <= lastCall.n /\ lastCall.n <= ChunkSize /\ batch_insert_data # <<>>)
        /\ IsPrefix(sent["batch"], batch_insert_data)
        /\ pc \notin {"clear", "single", "batch"} => sent["batch"] = batch_insert_data
        /\ script = "astra" =>
              /\ (lastCall.op = "insert_many" /\ lastCall.cat = "bulk") =>
                    (1 <= lastCall.n /\ lastCall.n <= ChunkSize
                     /\ bulk_insert_data # <<>>)
              /\ IsPrefix(sent["bulk"], bulk_insert_data)
              /\ PhaseRank(Phase(pc)) > 1 => sent["bulk"] = bulk_insert_data

\* C6 witness: the Astra batch loop is over after several calls, the last of them
\* with a chunk shorter than 20.
C6_Witness ==
    /\ script = "astra" /\ pc = "bulk" /\ status = "running"
    /\ Len(batch_insert_data) > AstraChunkSize
    /\ Len(batch_insert_data) % AstraChunkSize # 0
    /\ lastCall.op = "insert_many" /\ lastCall.n < AstraChunkSize
    /\ sent["batch"] = batch_insert_data

\* a step that does not move backward and skips no state
StepInOrder ==
    \/ PhaseRank(Phase(pc')) = PhaseRank(Phase(pc))
    \/ PhaseRank(Phase(pc')) = PhaseRank(Phase(pc)) + 1

\* the call issued by this step, if any, does not belong to an earlier state
\* than the one it is issued in
CallInOrder ==
    ncalls' # ncalls => OpRank(lastCall'.op) >= PhaseRank(Phase(lastCall'.cat))

\* the one insert the Mongo script issues in Deleting: the dummy record
IsDummyInsert(call) ==
    script = "mongo" /\ call.op = "insert_one" /\ call.cat = "delete_setup"

\* C7: a run goes through Idle, Inserting, Reading, Updating, Deleting, Reporting,
\* Done in that order, and no store call of an earlier state is issued once a
\* later state has been entered.
C7_StrictStateOrder == [][StepInOrder /\ CallInOrder]_vars

\* C7 (amended): a run goes through the states in that order as far as it gets,
\* never backward and skipping none, and no store call of an earlier state is
\* issued in a later one, except the insert-one of the dummy record that the
\* Mongo script issues at the start of Deleting.
C7_StateOrderButDummyInsert ==
    [][StepInOrder /\ (CallInOrder \/ IsDummyInsert(lastCall'))]_vars

\* C7 witness: a Mongo run has gone through every state, the dummy insert
\* included, and is Done.
C7_Witness ==
    /\ script = "mongo" /\ status = "done" /\ Phase(pc) = "Done"
    /\ ncalls > SingleEnd + Repeats + Repeats

\* C8: every sample of `latencies` is the duration of one specific call
\* (insert-one, get-by-key, update-one, delete-one), and there are no more
\* samples than timed specific calls.
C8_OnlySpecificSamples ==
    /\ \A k \in 1..Len(latencies) :
          latencies[k].op \in SpecificOps /\ latencies[k].dur = lat
    /\ Len(latencies) <= Len(single_insert_data) + Repeats + Repeats + 1

\* C8 witness: a Dynamo run is Done after its batch, bulk, scan and update-many
\* calls, with the samples of its timed specific calls.
C8_Witness ==
    /\ script = "dynamo" /\ status = "done"
    /\ Len(sent["bulk"]) > 0
    /\ Len(latencies) = SingleEnd + Repeats + Repeats + 1

C10_FailedCallDoesNotAbort ==
    nfailed > 0 => status # "crashed"

\* the samples of the single-insert loop: the first ones of `latencies`
InsertSamples == SubSeq(latencies, 1, Min(Len(latencies), Len(single_insert_data)))

\* C11: every per-category total is the sum of the durations recorded for the
\* category; the Insert (single) total is the sum of the insert-one samples.
C11_SingleTotalIsSumOfSamples ==
    /\ t["single"] # NotSet => t["single"] = SumSeq(Durations(InsertSamples))
    /\ t["read_specific"] # NotSet =>
          t["read_specific"] = SumSeq(Durations(read_latencies))
    /\ t["update_specific"] # NotSet =>
          t["update_specific"] = SumSeq(Durations(update_latencies))

\* C11 (amended): the Read (specific), Update (specific) and Delete (specific)
\* totals are the sums of their samples; the Insert (single) total is the time
\* the whole loop took, which is the sum of the insert-one samples plus the time
\* spent between the calls, so at least that sum.
C11_TotalsAndLoopTime ==
    /\ t["single"] # NotSet =>
          /\ t["single"] = SumSeq(Durations(InsertSamples)) + ovh * Len(InsertSamples)
          /\ t["single"] >= SumSeq(Durations(InsertSamples))
    /\ t["read_specific"] # NotSet =>
          t["read_specific"] = SumSeq(Durations(read_latencies))
    /\ t["update_specific"] # NotSet =>
          t["update_specific"] = SumSeq(Durations(update_latencies))
    /\ t["delete_specific"] # NotSet =>
          t["delete_specific"] = SumSeq(Durations(delete_latencies))

\* C11 witness: a run with ten timed inserts and time passing between the calls
\* has its insert, read and update totals.
C11_Witness ==
    /\ ovh > 0 /\ Len(InsertSamples) = SingleEnd
    /\ t["single"] > SumSeq(Durations(InsertSamples))
    /\ t["update_specific"] # NotSet

\* Reading begins: the run stands before the first specific read
ReadingBegins == status = "running" /\ pc = "read_specific" /\ idx = 0

\* the store holds a record of that identity that the Inserting section inserted
HeldFromInserting(key) ==
    \E k \in 1..Len(store[key]) : store[key][k].phase = "Inserting"

\* the rows of the file the Inserting section sends and leaves in the store: all
\* of them in the Mongo script, the first BulkEnd in the other two
InsertedRows ==
    IF script = "mongo" THEN csv.rows ELSE SubSeq(csv.rows, 1, Min(Len(csv.rows), BulkEnd))

\* the file has customer 37077 among those rows
TargetInDataset ==
    \E k \in 1..Len(InsertedRows) :
        /\ "Customer_Id" \in DOMAIN InsertedRows[k]
        /\ InsertedRows[k].Customer_Id = PyInt(TargetIdNumber)

C13_LatenciesAppendOnly == [][IsPrefix(latencies, latencies')]_vars

\* C13 witness: a finished run whose list holds the samples of all four
\* categories, added by four different sections.
C13_Witness ==
    /\ status = "done"
    /\ {latencies[k].op : k \in 1..Len(latencies)} = SpecificOps

\* the call the k-th sample times when the single-insert loop made n calls
ExpectedOp(k, n) ==
    CASE k <= n -> "insert_one"
      [] k > n /\ k <= n + Repeats -> "get_by_key"
      [] k > n + Repeats /\ k <= n + Repeats + Repeats -> "update_one"
      [] OTHER -> "delete_one"

\* C14: when no store call failed, the list TABLE 5 is computed from holds, for
\* a dataset of n >= 1 records, Min(n, 10) insert-one samples, then ten
\* read-specific, ten update-specific and one delete-specific sample, in that
\* order: 31 samples for ten records or more, n + 21 for fewer.
C14_SampleCountAndOrder ==
    status = "running" /\ pc = "aggregate" /\ nfailed = 0 =>
        LET n == Min(SingleEnd, Len(full_data)) IN
        /\ n >= 1
        /\ Len(latencies) = n + Repeats + Repeats + 1
        /\ \A k \in 1..Len(latencies) : latencies[k].op = ExpectedOp(k, n)

\* C14 witness: TABLE 5 is reached without a failed call on a dataset of fewer
\* than ten records.
C14_Witness ==
    /\ status = "running" /\ pc = "aggregate" /\ nfailed = 0
    /\ Len(full_data) = SingleEnd - 1
    /\ Len(latencies) = Len(full_data) + Repeats + Repeats + 1

====
